---- MODULE Spec2Model ----
(***************************************************************************)
(* The table engine of src/table.go: the active / pending / completed      *)
(* block lifecycle of a Table, the write path (InsertRecord, appender,     *)
(* ActiveWriteBlock, RotateBlock), the persistence task (writeBlock,       *)
(* dropPendingBlock), the scan set-up (memoryBlocks, collectRowGroups)     *)
(* and close().                                                            *)
(*                                                                         *)
(* Every block of code that runs under t.mtx without blocking is one       *)
(* action.  dropPendingBlock and close() block while they hold t.mtx, so   *)
(* each is two actions and the lock is a variable.                         *)
(***************************************************************************)
EXTENDS Bags, FiniteSets, Integers, Sequences, TLC

\* ------------------------------------------------------------------ bounds
MaxBlocks == 2         \* table blocks ever created
MaxInserts == 2        \* InsertRecord calls that begin a write-tx
MaxFaults == 1         \* calls of the WAL or of Persist that fail
MaxRotatedBlocks == 4  \* table blocks ever created when nothing is inserted
NumRecords == 3        \* records the test sends on recChan (10000 in the test)
MaxCallbackCalls == 2  \* records given to HashAggregate.Callback
MaxRows == 2           \* rows of a record given to HashAggregate.Callback

\* NumRows() of the records handed to InsertRecord: the empty record and a
\* record with rows.
RowCounts == {0, 2}

\* The goroutines that call Table.InsertRecord.
Writers == {1, 2}
Bounds(nblocks, ninserts, nfaults) ==
    [blocks |-> nblocks, inserts |-> ninserts, faults |-> nfaults]

\* The callbacks handed to Table.Iterator.
Callbacks == {1, 2}

\* rowGroups := make(chan any, len(callbacks)*4)
RowGroupsPerCallback == 4
ChannelCapacity == Cardinality(Callbacks) * RowGroupsPerCallback

\* The columns of the records that the group-by matchers match, the values
\* a row has in them, and the null value.
GroupByColumns == {"a", "b"}
ScalarValues == {1, 2}
Null == 0

\* The goroutines of the test, go simulateCaller() twice.
Producers == {1, 2}

VARIABLES
    active,           \* Table.active: a block id, 0 is nil
    pendingBlocks,    \* Table.pendingBlocks
    completedBlocks,  \* Table.completedBlocks, a sequence of [prevTx, tx]
    lastCompleted,    \* Table.lastCompleted
    closing,          \* Table.closing
    mtx,              \* Table.mtx: who holds the write lock
    blocks,           \* the TableBlocks created so far, by id
    task,             \* the writeBlock goroutine of each block
    tx,               \* the tx clock of the DB: the last tx handed out
    committed,        \* the txs whose commit() has run
    wal,              \* the entries the WAL has made durable
    bucket,           \* the files block.Persist has written
    writer,           \* the InsertRecord call of each writer
    scan,             \* the collectRowGroups call of the scanning goroutine
    closer,           \* the close() call
    inserts,          \* InsertRecord calls that have begun a write-tx
    faults,           \* WAL and Persist calls that have failed
    bound,            \* the bounds of the run, fixed by its initial state
    now,              \* time.Now() in the milliseconds of a ULID
    rejected,         \* the batches of the InsertRecord calls the WAL has failed
    iter,             \* a Table.Iterator call: its channel and its goroutines
    insertCtx,        \* per writer, the context its InsertRecord calls are given
    hashAggregate,    \* a HashAggregate: its builders, its hash map, its output
    synchronize       \* TestNoRaceAndSingleFinish: the barrier, sink and callers

vars == <<active, pendingBlocks, completedBlocks, lastCompleted, closing, mtx,
          blocks, task, tx, committed, wal, bucket, writer, scan, closer, inserts, faults, bound, now, rejected, iter,
          insertCtx, hashAggregate, synchronize>>

tableVars == <<active, pendingBlocks, completedBlocks, lastCompleted, closing>>

\* ------------------------------------------------------------------ the lock
Unlocked == [holder |-> "none", block |-> 0]
HeldByDrop(b) == [holder |-> "dropPendingBlock", block |-> b]
HeldByClose == [holder |-> "close", block |-> 0]

\* t.mtx.Lock() and t.mtx.RLock() both return only when no one holds the
\* write lock; the read sections of this file never block, so they are atomic
\* and read holders are not tracked.
CanLock == mtx = Unlocked
CanRLock == mtx = Unlocked

\* ------------------------------------------------------------------ the WAL
RecordEntry(t) == [type |-> "Record", tx |-> t, block |-> 0]
NewTableBlockEntry(t, id) == [type |-> "NewTableBlock", tx |-> t, block |-> id]
TableBlockPersistedEntry(t, id) == [type |-> "TableBlockPersisted", tx |-> t, block |-> id]

\* ------------------------------------------------------------------ blocks
\* A record as the index holds it: the tx it was inserted under and its rows.
Batch(t, rows) == [tx |-> t, rows |-> rows]

\* newTableBlock (the function): a fresh block; only the timestamp of the
\* ULID is kept, the one part of it this file reads (ulid.Time()).
NewBlock(prevTxv, t, ulidTime) ==
    [ulid |-> ulidTime, minTx |-> t, prevTx |-> prevTxv, index |-> {},
     pendingWritersWg |-> 0, pendingReadersWg |-> 0]

NoTask == [pc |-> "none", err |-> FALSE, tx |-> 0, spawned |-> 0]
IdleWriter == [pc |-> "idle", block |-> 0, tx |-> 0, rows |-> 0, result |-> "none"]
IdleScan == [pc |-> "idle", memoryBlocks |-> {}, lastBlockTimestamp |-> 0,
             sources |-> <<>>, emitted |-> EmptyBag, inserted |-> {},
             err |-> FALSE]

\* Table.Iterator before it is called: the context, the rowGroups channel
\* (only the number of row groups it buffers matters), the goroutine that
\* runs collectRowGroups, the goroutine of each callback, and the error
\* group.
IdleIter ==
    [pc |-> "idle", ctx |-> "live", rowGroups |-> 0, closed |-> FALSE,
     producer |-> "none", worker |-> [c \in Callbacks |-> "none"],
     err |-> FALSE, result |-> "none"]

\* TestNoRaceAndSingleFinish after synchronize.SetNext(&nextPlan): the
\* counter wg and the mutex of the barrier, the counters of the sink,
\* recChan (the records sent so far, and whether it is closed), and the two
\* callers, each with the value of numCbCalls it has read.  late records
\* that a caller registered after another had called Finish.
InitSynchronize ==
    [wg |-> 0, mtx |-> 0, numCbCalls |-> 0, numFinCalls |-> 0,
     sent |-> 0, closed |-> FALSE, late |-> FALSE,
     caller |-> [p \in Producers |-> [pc |-> "start", read |-> 0]]]

\* NewHashAggregate: no group-by builder, no aggregate builder, an empty hash
\* map.  Of a builder only its Len() is kept.  out is what Finish has
\* passed to nextCallback.
NewHashAggregate ==
    [groupByCols |-> [c \in {} |-> 0],
     arraysToAggregate |-> <<>>,
     hashToAggregate |-> [h \in {} |-> 0],
     calls |-> 0,
     err |-> FALSE,
     out |-> [passed |-> FALSE, groupByArrays |-> [c \in {} |-> 0], aggregateArray |-> 0]]

\* The block a new table starts with: it has no predecessor, its prevTx is
\* the initial lastCompleted, and it is created under the first tx.
FirstBlock == NewBlock(0, 1, 1)

\* The table as newTable and the creation of its first block leave it: the
\* block is logged in the WAL and active, nothing is pending or completed.
InitTable ==
    /\ active = 1
    /\ pendingBlocks = {}
    /\ completedBlocks = <<>>
    /\ lastCompleted = 0
    /\ closing = FALSE
    /\ mtx = Unlocked
    /\ blocks = <<FirstBlock>>
    /\ task = <<NoTask>>
    /\ tx = 1
    /\ committed = {1}
    /\ wal = {NewTableBlockEntry(1, 1)}
    /\ bucket = {}
    /\ writer = [w \in Writers |-> IdleWriter]
    /\ scan = IdleScan
    /\ closer = "idle"
    /\ inserts = 0
    /\ faults = 0
    /\ now = 1
    /\ rejected = {}
    /\ iter = IdleIter
    /\ insertCtx = [w \in Writers |-> "live"]
    /\ hashAggregate = NewHashAggregate
    /\ synchronize = InitSynchronize

\* The table as newTable alone returns it: t.active is not set, there is no
\* block, and nothing has been logged.
InitReadOnlyTable ==
    /\ active = 0
    /\ pendingBlocks = {}
    /\ completedBlocks = <<>>
    /\ lastCompleted = 0
    /\ closing = FALSE
    /\ mtx = Unlocked
    /\ blocks = <<>>
    /\ task = <<>>
    /\ tx = 0
    /\ committed = {}
    /\ wal = {}
    /\ bucket = {}
    /\ writer = [w \in Writers |-> IdleWriter]
    /\ scan = IdleScan
    /\ closer = "idle"
    /\ inserts = 0
    /\ faults = 0
    /\ now = 1
    /\ rejected = {}
    /\ iter = IdleIter
    /\ insertCtx = [w \in Writers |-> "live"]
    /\ hashAggregate = NewHashAggregate
    /\ synchronize = InitSynchronize

\* ------------------------------------------------------------------ helpers
\* The outcomes of a call that may fail: success, and failure while the run
\* has failures left.
Outcomes == IF faults < bound.faults THEN BOOLEAN ELSE {TRUE}
Fault(ok) == faults' = IF ok THEN faults ELSE faults + 1

Done(bs, b) == [bs EXCEPT ![b].pendingWritersWg = @ - 1]

BlockIds == 1..Len(blocks)
AllBlockIds == 1..(MaxBlocks + MaxRotatedBlocks)

\* The tx clock stops here: the first block, the inserts, a rotation and a
\* TableBlockPersisted entry for each block but the last, and a tx for each
\* call that may fail.
MaxTx == bound.inserts + 2 * bound.blocks + bound.faults - 1

\* ------------------------------------------------------------------ writers
\* A faulty variant of the next definition: the flag is not looked at.
TableClosingIgnored == FALSE

\* ActiveWriteBlock: if t.closing.
TableClosing == closing

\* A faulty variant of the next definition: an appender that has been through
\* RotateBlock takes its slot on the block it holds, not on t.active.
ActiveWriteBlockStale(w) ==
    /\ writer[w].pc \in {"idle", "appender"}
    /\ CanRLock
    /\ active # 0
    /\ LET b == IF writer[w].pc = "appender" THEN writer[w].block ELSE active
       IN IF TableClosing
          THEN /\ writer' = [writer EXCEPT ![w] = [IdleWriter EXCEPT !.result = "ErrTableClosing"]]
               /\ UNCHANGED blocks
          ELSE /\ blocks' = [blocks EXCEPT ![b].pendingWritersWg = @ + 1]
               /\ writer' = [writer EXCEPT ![w] =
                       [IdleWriter EXCEPT !.pc = "acquired", !.block = b]]
    /\ UNCHANGED <<tableVars, mtx, task, tx, committed, wal, bucket, scan,
                   closer, inserts, faults, bound, now, rejected, iter,
                   insertCtx, hashAggregate, synchronize>>

\* Table.ActiveWriteBlock, called by the appender loop of InsertRecord: under
\* the read lock, refuse when closing, else take a writer slot on t.active.
ActiveWriteBlock(w) ==
    /\ writer[w].pc \in {"idle", "appender"}
    /\ CanRLock
    /\ active # 0
    /\ IF TableClosing
       THEN /\ writer' = [writer EXCEPT ![w] = [IdleWriter EXCEPT !.result = "ErrTableClosing"]]
            /\ UNCHANGED blocks
       ELSE /\ blocks' = [blocks EXCEPT ![active].pendingWritersWg = @ + 1]
            /\ writer' = [writer EXCEPT ![w] =
                    [IdleWriter EXCEPT !.pc = "acquired", !.block = active]]
    /\ UNCHANGED <<tableVars, mtx, task, tx, committed, wal, bucket, scan,
                   closer, inserts, faults, bound, now, rejected, iter,
                   insertCtx, hashAggregate, synchronize>>

\* The caller of InsertRecord cancels the context it is about to pass.
CancelInsertContext(w) ==
    /\ writer[w] = IdleWriter
    /\ insertCtx[w] = "live"
    /\ insertCtx' = [insertCtx EXCEPT ![w] = "cancelled"]
    /\ UNCHANGED <<tableVars, mtx, blocks, task, tx, committed, wal, bucket,
                   writer, scan, closer, inserts, faults, bound, now, rejected,
                   iter, hashAggregate, synchronize>>

\* Table.ActiveWriteBlock on a table whose t.active is nil: t.closing is
\* false, and t.active.pendingWritersWg dereferences the nil block: the
\* goroutine panics.
ActiveWriteBlockNil(w) ==
    /\ writer[w].pc = "idle"
    /\ CanRLock
    /\ active = 0
    /\ ~TableClosing
    /\ writer' = [writer EXCEPT ![w] = [IdleWriter EXCEPT !.pc = "panicked",
                                                         !.result = "panic"]]
    /\ UNCHANGED <<tableVars, mtx, blocks, task, tx, committed, wal, bucket,
                   scan, closer, inserts, faults, bound, now, rejected, iter,
                   insertCtx, hashAggregate, synchronize>>

\* A faulty variant of the next definition: commit() is called, not deferred.
CommittedAfterBeginUndeferred(t) == committed \cup {t}

\* InsertRecord: tx, _, commit := t.db.begin() followed by defer commit():
\* the tx is handed out and stays uncommitted until InsertRecord returns.
CommittedAfterBegin(t) == committed

\* appender, block.Size() < activeMemorySize: the block is returned and
\* InsertRecord begins its write-tx.  Size() is an atomic counter this file
\* only reads, so either outcome of the comparison is possible.  The record
\* of the call is first looked at from here on, so its NumRows() is drawn here.
AppenderAdmit(w) ==
    /\ writer[w].pc = "acquired"
    /\ tx < MaxTx /\ inserts < bound.inserts
    /\ tx' = tx + 1
    /\ inserts' = inserts + 1
    /\ committed' = CommittedAfterBegin(tx + 1)
    /\ \E rows \in RowCounts :
        writer' = [writer EXCEPT ![w].pc = "log", ![w].tx = tx + 1, ![w].rows = rows]
    /\ UNCHANGED <<tableVars, mtx, blocks, task, wal, bucket, scan, closer,
                   faults, bound, now, rejected, iter, insertCtx,
                   hashAggregate, synchronize>>

\* appender, block.Size() >= activeMemorySize: the slot is released unused
\* and the block is to be rotated.
AppenderFull(w) ==
    /\ writer[w].pc = "acquired"
    /\ tx < MaxTx /\ Len(blocks) < bound.blocks
    /\ blocks' = Done(blocks, writer[w].block)
    /\ writer' = [writer EXCEPT ![w].pc = "rotate"]
    /\ UNCHANGED <<tableVars, mtx, task, tx, committed, wal, bucket, scan,
                   closer, inserts, faults, bound, now, rejected, iter,
                   insertCtx, hashAggregate, synchronize>>

\* A faulty variant of the next definition: the error of t.wal.Log is
\* logged and the block is made active all the same.
newTableBlockUnlogged(prevTxv, t, id, walOk) ==
    /\ wal' = IF walOk THEN wal \cup {NewTableBlockEntry(t, Len(blocks) + 1)} ELSE wal
    /\ blocks' = Append(blocks, NewBlock(prevTxv, t, id))
    /\ active' = Len(blocks) + 1

\* Table.newTableBlock (the method): log NewTableBlock under tx t, and only
\* then construct the block and make it t.active.
newTableBlock(prevTxv, t, id, walOk) ==
    IF walOk
    THEN /\ wal' = wal \cup {NewTableBlockEntry(t, Len(blocks) + 1)}
         /\ blocks' = Append(blocks, NewBlock(prevTxv, t, id))
         /\ active' = Len(blocks) + 1
    ELSE UNCHANGED <<wal, blocks, active>>

\* generateULID: a ULID of time.Now().
generateULID == now

\* A faulty variant of the next definition: RotateBlock without its check.
RotateAlways(block) == TRUE

\* RotateBlock: if t.active != block, someone else has rotated the block and
\* there is nothing to do.
RotateNeeded(block) == active = block

\* Table.RotateBlock(ctx, block) as called by the appender, all of it under
\* the write lock.
RotateBlock(w) ==
    /\ writer[w].pc = "rotate"
    /\ CanLock
    /\ IF ~RotateNeeded(writer[w].block)
       THEN /\ writer' = [writer EXCEPT ![w].pc = "appender"]
            /\ UNCHANGED <<tableVars, blocks, task, tx, committed, wal, faults>>
       ELSE /\ tx < MaxTx
            /\ tx' = tx + 1
            /\ committed' = committed \cup {tx + 1}
            /\ \E walOk \in Outcomes :
                /\ Fault(walOk)
                /\ newTableBlock(blocks[active].minTx, tx + 1, generateULID, walOk)
                /\ IF walOk
                   THEN /\ pendingBlocks' = pendingBlocks \cup {writer[w].block}
                        /\ task' = [b \in 1..Len(blocks') |->
                                     IF b = writer[w].block
                                     THEN [NoTask EXCEPT !.pc = "wait",
                                                         !.spawned = task[b].spawned + 1]
                                     ELSE IF b \in DOMAIN task THEN task[b] ELSE NoTask]
                        /\ writer' = [writer EXCEPT ![w].pc = "appender"]
                   ELSE /\ writer' = [writer EXCEPT ![w] =
                                [IdleWriter EXCEPT !.result = "RotateError"]]
                        /\ task' = [b \in 1..Len(blocks') |->
                                     IF b \in DOMAIN task THEN task[b] ELSE NoTask]
                        /\ UNCHANGED pendingBlocks
            /\ UNCHANGED <<completedBlocks, lastCompleted, closing>>
    /\ UNCHANGED <<mtx, bucket, scan, closer, inserts, bound, now, rejected,
                   iter, insertCtx, hashAggregate, synchronize>>

\* A faulty variant of the next definition: the error of LogRecord is dropped.
AfterLogRecordIgnoringError(walOk) == "insert"

\* Where InsertRecord goes after t.wal.LogRecord: on to block.InsertRecord, or
\* straight to its deferred commit() and close() with the error.
AfterLogRecord(walOk) == IF walOk THEN "insert" ELSE "return"

\* InsertRecord: t.wal.LogRecord(tx, t.name, record).
LogRecord(w) ==
    /\ writer[w].pc = "log"
    /\ \E walOk \in Outcomes :
        /\ Fault(walOk)
        /\ wal' = IF walOk THEN wal \cup {RecordEntry(writer[w].tx)} ELSE wal
        /\ rejected' = IF walOk THEN rejected ELSE rejected \cup {Batch(writer[w].tx, writer[w].rows)}
        /\ writer' = [writer EXCEPT ![w].pc = AfterLogRecord(walOk),
                                    ![w].result = IF walOk THEN "none" ELSE "WALError"]
    /\ UNCHANGED <<tableVars, mtx, blocks, task, tx, committed, bucket, scan,
                   closer, inserts, bound, now, iter, insertCtx, hashAggregate,
                   synchronize>>

\* TableBlock.InsertRecord: a record without rows is counted and dropped, any
\* other is added to the index under its tx.
BlockInsertRecord(b, t, rows) ==
    IF rows = 0
    THEN blocks
    ELSE [blocks EXCEPT ![b].index = @ \cup {Batch(t, rows)}]

\* A faulty variant of the next definition: the record goes into the block
\* that is active at the time of the insertion, not into the appender's.
InsertIntoActiveBlock(w) ==
    /\ writer[w].pc = "insert"
    /\ blocks' = BlockInsertRecord(active, writer[w].tx, writer[w].rows)
    /\ writer' = [writer EXCEPT ![w].pc = "return",
                                ![w].result = IF writer[w].result = "none" THEN "ok" ELSE @]
    /\ UNCHANGED <<tableVars, mtx, task, tx, committed, wal, bucket, scan,
                   closer, inserts, faults, bound, now, rejected, iter,
                   insertCtx, hashAggregate, synchronize>>

\* InsertRecord: block.InsertRecord(ctx, tx, record).
InsertIntoBlock(w) ==
    /\ writer[w].pc = "insert"
    /\ blocks' = BlockInsertRecord(writer[w].block, writer[w].tx, writer[w].rows)
    /\ writer' = [writer EXCEPT ![w].pc = "return",
                                ![w].result = IF writer[w].result = "none" THEN "ok" ELSE @]
    /\ UNCHANGED <<tableVars, mtx, task, tx, committed, wal, bucket, scan,
                   closer, inserts, faults, bound, now, rejected, iter,
                   insertCtx, hashAggregate, synchronize>>

\* A faulty variant of the next definition: commit() is called before the
\* final return, not deferred, and the error returns pass it by.
ReturnWithoutCommitOnError(w) ==
    /\ writer[w].pc = "return"
    /\ committed' = IF writer[w].result = "ok"
                     THEN committed \cup {writer[w].tx} ELSE committed
    /\ blocks' = Done(blocks, writer[w].block)
    /\ writer' = [writer EXCEPT ![w] = IdleWriter]
    /\ UNCHANGED <<tableVars, mtx, task, tx, wal, bucket, scan, closer,
                   inserts, faults, bound, now, rejected, iter, insertCtx,
                   hashAggregate, synchronize>>

\* InsertRecord returning: the deferred commit(), then the deferred close(),
\* which is pendingWritersWg.Done of the block the appender returned.
Return(w) ==
    /\ writer[w].pc = "return"
    /\ committed' = committed \cup {writer[w].tx}
    /\ blocks' = Done(blocks, writer[w].block)
    /\ writer' = [writer EXCEPT ![w] = IdleWriter]
    /\ UNCHANGED <<tableVars, mtx, task, tx, wal, bucket, scan, closer,
                   inserts, faults, bound, now, rejected, iter, insertCtx,
                   hashAggregate, synchronize>>

\* ------------------------------------------------------------------ writeBlock
\* A faulty variant of the next definition: the task does not wait.
WaitWritersSkipped(b) ==
    /\ b \in BlockIds
    /\ task[b].pc = "wait"
    /\ task' = [task EXCEPT ![b].pc = "persist"]
    /\ UNCHANGED <<tableVars, mtx, blocks, tx, committed, wal, bucket, writer,
                   scan, closer, inserts, faults, bound, now, rejected, iter,
                   insertCtx, hashAggregate, synchronize>>

\* writeBlock: block.pendingWritersWg.Wait().
WaitWriters(b) ==
    /\ b \in BlockIds
    /\ task[b].pc = "wait"
    /\ blocks[b].pendingWritersWg = 0
    /\ task' = [task EXCEPT ![b].pc = "persist"]
    /\ UNCHANGED <<tableVars, mtx, blocks, tx, committed, wal, bucket, writer,
                   scan, closer, inserts, faults, bound, now, rejected, iter,
                   insertCtx, hashAggregate, synchronize>>

\* block.Persist(): the index of the block, as it is now, becomes a file
\* named by the ULID of the block; or the call fails and writes nothing.
PersistedFile(b) == [block |-> b, ulid |-> blocks[b].ulid, data |-> blocks[b].index]

Persist(b) ==
    /\ b \in BlockIds
    /\ task[b].pc = "persist"
    /\ \E ok \in Outcomes :
        /\ Fault(ok)
        /\ bucket' = IF ok THEN bucket \cup {PersistedFile(b)} ELSE bucket
        /\ task' = [task EXCEPT ![b].pc = "drop", ![b].err = ~ok]
    /\ UNCHANGED <<tableVars, mtx, blocks, tx, committed, wal, writer, scan,
                   closer, inserts, bound, now, rejected, iter, insertCtx,
                   hashAggregate, synchronize>>

\* A faulty variant of the next definition: the error of Persist is logged
\* and the task goes on.
AfterDropIgnoringError(b) == "log"

\* Where writeBlock goes after dropPendingBlock: a failed Persist ends the
\* task, else the TableBlockPersisted entry is next.
AfterDrop(b) == IF task[b].err THEN "failed" ELSE "log"

\* dropPendingBlock: take the write lock, delete the block from pendingBlocks
\* and block.pendingReadersWg.Wait().  With no reader to wait for it unlocks
\* at once; else it goes on holding the lock.
DropPendingBlock(b) ==
    /\ b \in BlockIds
    /\ task[b].pc = "drop"
    /\ CanLock
    /\ pendingBlocks' = pendingBlocks \ {b}
    /\ IF blocks[b].pendingReadersWg = 0
       THEN /\ task' = [task EXCEPT ![b].pc = AfterDrop(b)]
            /\ UNCHANGED mtx
       ELSE /\ task' = [task EXCEPT ![b].pc = "dropWait"]
            /\ mtx' = HeldByDrop(b)
    /\ UNCHANGED <<active, completedBlocks, lastCompleted, closing, blocks, tx,
                   committed, wal, bucket, writer, scan, closer, inserts,
                   faults, bound, now, rejected, iter, insertCtx,
                   hashAggregate, synchronize>>

\* A faulty variant of the next definition: it does not wait for the readers.
DropPendingBlockNoWait(b) ==
    /\ b \in BlockIds
    /\ task[b].pc = "dropWait"
    /\ mtx' = Unlocked
    /\ task' = [task EXCEPT ![b].pc = AfterDrop(b)]
    /\ UNCHANGED <<tableVars, blocks, tx, committed, wal, bucket, writer, scan,
                   closer, inserts, faults, bound, now, rejected, iter,
                   insertCtx, hashAggregate, synchronize>>

\* dropPendingBlock, blocked in pendingReadersWg.Wait() with the lock held:
\* the last reader has gone, it unlocks and returns.
DropPendingBlockWait(b) ==
    /\ b \in BlockIds
    /\ task[b].pc = "dropWait"
    /\ blocks[b].pendingReadersWg = 0
    /\ mtx' = Unlocked
    /\ task' = [task EXCEPT ![b].pc = AfterDrop(b)]
    /\ UNCHANGED <<tableVars, blocks, tx, committed, wal, bucket, writer, scan,
                   closer, inserts, faults, bound, now, rejected, iter,
                   insertCtx, hashAggregate, synchronize>>

\* writeBlock: tx, _, commit := t.db.begin(), then t.wal.Log of
\* TableBlockPersisted under that tx; a failure returns through the deferred
\* commit().
LogPersisted(b) ==
    /\ b \in BlockIds
    /\ task[b].pc = "log"
    /\ tx < MaxTx
    /\ tx' = tx + 1
    /\ \E walOk \in Outcomes :
        /\ Fault(walOk)
        /\ IF walOk
           THEN /\ wal' = wal \cup {TableBlockPersistedEntry(tx + 1, b)}
                /\ task' = [task EXCEPT ![b].pc = "complete", ![b].tx = tx + 1]
                /\ UNCHANGED committed
           ELSE /\ committed' = committed \cup {tx + 1}
                /\ task' = [task EXCEPT ![b].pc = "failed", ![b].tx = tx + 1]
                /\ UNCHANGED wal
    /\ UNCHANGED <<tableVars, mtx, blocks, bucket, writer, scan, closer,
                   inserts, bound, now, rejected, iter, insertCtx,
                   hashAggregate, synchronize>>

RECURSIVE InsertByPrevTx(_, _)
InsertByPrevTx(s, e) ==
    IF s = <<>> THEN <<e>>
    ELSE IF e.prevTx < Head(s).prevTx THEN <<e>> \o s
    ELSE <<Head(s)>> \o InsertByPrevTx(Tail(s), e)

\* A faulty variant of the next definition: completedBlocks is left unsorted.
Unsorted(s) == s

\* sort.Slice(t.completedBlocks, prevTx ascending).
RECURSIVE SortByPrevTx(_)
SortByPrevTx(s) ==
    IF s = <<>> THEN <<>> ELSE InsertByPrevTx(SortByPrevTx(Tail(s)), Head(s))

\* A faulty variant of the next definition: the loop does not compare the
\* prevTx of the head with lastCompleted.
RECURSIVE AdvanceToLast(_, _)
AdvanceToLast(cbs, last) ==
    IF cbs = <<>>
    THEN [completedBlocks |-> cbs, lastCompleted |-> last]
    ELSE AdvanceToLast(Tail(cbs), Head(cbs).tx)

\* The for loop of writeBlock: while the head of completedBlocks continues
\* lastCompleted, advance lastCompleted to its tx and pop it.
RECURSIVE AdvanceLastCompleted(_, _)
AdvanceLastCompleted(cbs, last) ==
    IF cbs = <<>> \/ Head(cbs).prevTx # last
    THEN [completedBlocks |-> cbs, lastCompleted |-> last]
    ELSE AdvanceLastCompleted(Tail(cbs), Head(cbs).tx)

\* writeBlock, lines 419-436: under the write lock append the block, sort, and
\* advance the watermark; then the deferred commit().
CompleteBlock(b) ==
    /\ b \in BlockIds
    /\ task[b].pc = "complete"
    /\ CanLock
    /\ LET appended == Append(completedBlocks,
                              [prevTx |-> blocks[b].prevTx, tx |-> blocks[b].minTx])
           adv == AdvanceLastCompleted(SortByPrevTx(appended), lastCompleted)
       IN /\ completedBlocks' = adv.completedBlocks
          /\ lastCompleted' = adv.lastCompleted
    /\ committed' = committed \cup {task[b].tx}
    /\ task' = [task EXCEPT ![b].pc = "completed"]
    /\ UNCHANGED <<active, pendingBlocks, closing, mtx, blocks, tx, wal,
                   bucket, writer, scan, closer, inserts, faults, bound, now,
                   rejected, iter, insertCtx, hashAggregate, synchronize>>

\* ------------------------------------------------------------------ scans
RECURSIVE AscendingSeq(_)
AscendingSeq(S) ==
    IF S = {} THEN <<>>
    ELSE LET m == CHOOSE x \in S : \A y \in S : x <= y
         IN <<m>> \o AscendingSeq(S \ {m})

MinUlid(S) == CHOOSE m \in {blocks[b].ulid : b \in S} : \A b \in S : m <= blocks[b].ulid

\* Every batch some block.InsertRecord has added to an index so far.
Inserted == UNION {blocks[b].index : b \in BlockIds}

\* Table.memoryBlocks, first thing in collectRowGroups: under the read lock
\* take a reader reference on the active and on every pending block, and the
\* least ULID time among them.  Source 0 stands for t.db.sources, the bucket
\* of persisted files; the others are the indexes of the memory blocks.
MemoryBlocks ==
    /\ scan.pc = "idle"
    /\ CanRLock
    /\ active # 0
    /\ LET mem == {active} \cup pendingBlocks
       IN /\ blocks' = [b \in BlockIds |->
                          IF b \in mem
                          THEN [blocks[b] EXCEPT !.pendingReadersWg = @ + 1]
                          ELSE blocks[b]]
          /\ scan' = [pc |-> "scan", memoryBlocks |-> mem,
                      lastBlockTimestamp |-> MinUlid(mem),
                      sources |-> <<0>> \o AscendingSeq(mem),
                      emitted |-> EmptyBag, inserted |-> Inserted,
                      err |-> FALSE]
    /\ UNCHANGED <<tableVars, mtx, task, tx, committed, wal, bucket, writer,
                   closer, inserts, faults, bound, now, rejected, iter,
                   insertCtx, hashAggregate, synchronize>>

\* Scan of the bucket: the files whose ULID time is >= the cutoff are skipped.
BucketScan(cutoff) == UNION {f.data : f \in {g \in bucket : g.ulid < cutoff}}

\* collectRowGroups: source.Scan of the next source, every row group it
\* emits going to the channel; if the source returns an error,
\* collectRowGroups returns it without scanning the sources that are left.
ScanSource ==
    /\ scan.pc = "scan"
    /\ scan.sources # <<>>
    /\ ~scan.err
    /\ \E ok \in Outcomes :
        /\ Fault(ok)
        /\ LET src == Head(scan.sources)
               out == IF src = 0 THEN BucketScan(scan.lastBlockTimestamp)
                      ELSE blocks[src].index
           IN scan' = IF ok
                      THEN [scan EXCEPT !.sources = Tail(@),
                                        !.emitted = @ (+) SetToBag(out)]
                      ELSE [scan EXCEPT !.err = TRUE]
    /\ UNCHANGED <<tableVars, mtx, blocks, task, tx, committed, wal, bucket,
                   writer, closer, inserts, bound, now, rejected, iter,
                   insertCtx, hashAggregate, synchronize>>

\* A faulty variant of the next definition: the readers are released at the
\* end of the function, which the return of an error does not reach.
ReleaseReadersAtEnd ==
    /\ scan.pc = "scan"
    /\ scan.sources = <<>> \/ scan.err
    /\ blocks' = [b \in BlockIds |->
                    IF b \in scan.memoryBlocks /\ ~scan.err
                    THEN [blocks[b] EXCEPT !.pendingReadersWg = @ - 1]
                    ELSE blocks[b]]
    /\ scan' = [scan EXCEPT !.pc = "idle"]
    /\ UNCHANGED <<tableVars, mtx, task, tx, committed, wal, bucket, writer,
                   closer, inserts, faults, bound, now, rejected, iter,
                   insertCtx, hashAggregate, synchronize>>

\* collectRowGroups returning, with nil or with the error of a source: the
\* deferred pendingReadersWg.Done() of every block of the snapshot.
ReleaseReaders ==
    /\ scan.pc = "scan"
    /\ scan.sources = <<>> \/ scan.err
    /\ blocks' = [b \in BlockIds |->
                    IF b \in scan.memoryBlocks
                    THEN [blocks[b] EXCEPT !.pendingReadersWg = @ - 1]
                    ELSE blocks[b]]
    /\ scan' = [scan EXCEPT !.pc = "idle"]
    /\ UNCHANGED <<tableVars, mtx, task, tx, committed, wal, bucket, writer,
                   closer, inserts, faults, bound, now, rejected, iter,
                   insertCtx, hashAggregate, synchronize>>

\* ------------------------------------------------------------------ close
\* Table.close: take the write lock and t.active.pendingWritersWg.Wait().
\* With no writer to wait for it sets closing and unlocks at once; else it
\* goes on holding the lock.
CloseLock ==
    /\ closer = "idle"
    /\ CanLock
    /\ active # 0
    /\ IF blocks[active].pendingWritersWg = 0
       THEN closing' = TRUE /\ closer' = "closed" /\ UNCHANGED mtx
       ELSE mtx' = HeldByClose /\ closer' = "wait" /\ UNCHANGED closing
    /\ UNCHANGED <<active, pendingBlocks, completedBlocks, lastCompleted,
                   blocks, task, tx, committed, wal, bucket, writer, scan,
                   inserts, faults, bound, now, rejected, iter, insertCtx,
                   hashAggregate, synchronize>>

\* close, blocked in pendingWritersWg.Wait() with the lock held: the last
\* writer of the active block has gone, it sets closing and unlocks.
CloseWait ==
    /\ closer = "wait"
    /\ blocks[active].pendingWritersWg = 0
    /\ closing' = TRUE
    /\ mtx' = Unlocked
    /\ closer' = "closed"
    /\ UNCHANGED <<active, pendingBlocks, completedBlocks, lastCompleted,
                   blocks, task, tx, committed, wal, bucket, writer, scan,
                   inserts, faults, bound, now, rejected, iter, insertCtx,
                   hashAggregate, synchronize>>

\* ------------------------------------------------------------------ clock
\* A millisecond passes.  Only the order of the ULID times is ever read, so
\* the clock runs at most one tick ahead of the newest block.
Tick ==
    /\ now = blocks[Len(blocks)].ulid
    /\ now' = now + 1
    /\ UNCHANGED <<tableVars, mtx, blocks, task, tx, committed, wal, bucket,
                   writer, scan, closer, inserts, faults, bound, rejected,
                   iter, insertCtx, hashAggregate, synchronize>>

\* ------------------------------------------------------------------ Iterator
\* The error group: the first goroutine to return an error cancels the
\* context of all of them, and errg.Wait() returns that error.
ErrgroupFail(it) == [it EXCEPT !.err = TRUE, !.ctx = "cancelled"]

\* Table.Iterator up to errg.Wait(): the channel is made, a goroutine is
\* started for each callback and one for collectRowGroups.
IteratorStart ==
    /\ iter.pc = "idle"
    /\ iter' = [iter EXCEPT !.pc = "running", !.producer = "scan",
                            !.worker = [c \in Callbacks |-> "select"]]
    /\ UNCHANGED <<tableVars, mtx, blocks, task, tx, committed, wal, bucket,
                   writer, scan, closer, inserts, faults, bound, now, rejected,
                   insertCtx, hashAggregate, synchronize>>

\* The caller cancels the context it gave to Iterator.
CancelContext ==
    /\ iter.pc = "running"
    /\ iter.ctx = "live"
    /\ iter' = [iter EXCEPT !.ctx = "cancelled"]
    /\ UNCHANGED <<tableVars, mtx, blocks, task, tx, committed, wal, bucket,
                   writer, scan, closer, inserts, faults, bound, now, rejected,
                   insertCtx, hashAggregate, synchronize>>

\* A worker in its select, case <-ctx.Done(): return ctx.Err().
WorkerCancelled(c) ==
    /\ iter.worker[c] = "select"
    /\ iter.ctx = "cancelled"
    /\ iter' = [ErrgroupFail(iter) EXCEPT !.worker[c] = "returned"]
    /\ UNCHANGED <<tableVars, mtx, blocks, task, tx, committed, wal, bucket,
                   writer, scan, closer, inserts, faults, bound, now, rejected,
                   insertCtx, hashAggregate, synchronize>>

\* A worker in its select, case rg, ok := <-rowGroups with a row group.
WorkerReceive(c) ==
    /\ iter.worker[c] = "select"
    /\ iter.rowGroups > 0
    /\ iter' = [iter EXCEPT !.rowGroups = @ - 1, !.worker[c] = "callback"]
    /\ UNCHANGED <<tableVars, mtx, blocks, task, tx, committed, wal, bucket,
                   writer, scan, closer, inserts, faults, bound, now, rejected,
                   insertCtx, hashAggregate, synchronize>>

\* A worker in its select, the channel closed and drained: it returns nil,
\* or first hands the record left in its converter to the callback.
WorkerClosed(c) ==
    /\ iter.worker[c] = "select"
    /\ iter.closed /\ iter.rowGroups = 0
    /\ \E residual \in BOOLEAN :
        iter' = [iter EXCEPT !.worker[c] = IF residual THEN "flush" ELSE "returned"]
    /\ UNCHANGED <<tableVars, mtx, blocks, task, tx, committed, wal, bucket,
                   writer, scan, closer, inserts, faults, bound, now, rejected,
                   insertCtx, hashAggregate, synchronize>>

\* A worker with a row group or a last record: the conversion and the
\* callback succeed and it goes on, or one of them fails and it returns the
\* error.
WorkerCallback(c) ==
    /\ iter.worker[c] \in {"callback", "flush"}
    /\ \E ok \in BOOLEAN :
        iter' = IF ok
                THEN [iter EXCEPT !.worker[c] =
                        IF iter.worker[c] = "flush" THEN "returned" ELSE "select"]
                ELSE [ErrgroupFail(iter) EXCEPT !.worker[c] = "returned"]
    /\ UNCHANGED <<tableVars, mtx, blocks, task, tx, committed, wal, bucket,
                   writer, scan, closer, inserts, faults, bound, now, rejected,
                   insertCtx, hashAggregate, synchronize>>

\* collectRowGroups inside source.Scan: the source has another row group
\* and calls the function that sends it.
EmitRowGroup ==
    /\ iter.producer = "scan"
    /\ iter' = [iter EXCEPT !.producer = "send"]
    /\ UNCHANGED <<tableVars, mtx, blocks, task, tx, committed, wal, bucket,
                   writer, scan, closer, inserts, faults, bound, now, rejected,
                   insertCtx, hashAggregate, synchronize>>

\* rowGroups <- v: the send returns once the channel has room.
SendRowGroup ==
    /\ iter.producer = "send"
    /\ iter.rowGroups < ChannelCapacity
    /\ iter' = [iter EXCEPT !.rowGroups = @ + 1, !.producer = "scan"]
    /\ UNCHANGED <<tableVars, mtx, blocks, task, tx, committed, wal, bucket,
                   writer, scan, closer, inserts, faults, bound, now, rejected,
                   insertCtx, hashAggregate, synchronize>>

\* A source.Scan returns an error, that of the context included:
\* collectRowGroups returns it and the channel stays open.
ScanFails ==
    /\ iter.producer = "scan"
    /\ iter' = [ErrgroupFail(iter) EXCEPT !.producer = "returned"]
    /\ UNCHANGED <<tableVars, mtx, blocks, task, tx, committed, wal, bucket,
                   writer, scan, closer, inserts, faults, bound, now, rejected,
                   insertCtx, hashAggregate, synchronize>>

\* Every source is drained: collectRowGroups returns nil, close(rowGroups).
CloseRowGroups ==
    /\ iter.producer = "scan"
    /\ iter' = [iter EXCEPT !.closed = TRUE, !.producer = "returned"]
    /\ UNCHANGED <<tableVars, mtx, blocks, task, tx, committed, wal, bucket,
                   writer, scan, closer, inserts, faults, bound, now, rejected,
                   insertCtx, hashAggregate, synchronize>>

\* errg.Wait(): every goroutine has returned; the first error, if any.
IteratorWait ==
    /\ iter.pc = "running"
    /\ iter.producer = "returned"
    /\ \A c \in Callbacks : iter.worker[c] = "returned"
    /\ iter' = [iter EXCEPT !.pc = "returned",
                            !.result = IF iter.err THEN "error" ELSE "nil"]
    /\ UNCHANGED <<tableVars, mtx, blocks, task, tx, committed, wal, bucket,
                   writer, scan, closer, inserts, faults, bound, now, rejected,
                   insertCtx, hashAggregate, synchronize>>

Worker(c) ==
    WorkerCancelled(c) \/ WorkerReceive(c) \/ WorkerClosed(c) \/ WorkerCallback(c)

Producer == EmitRowGroup \/ SendRowGroup \/ ScanFails \/ CloseRowGroups

\* ------------------------------------------------------------------ HashAggregate
\* The rows of a record whose group-by columns are those of S, and the
\* records of up to MaxRows rows.
RowsOver(S) == [S -> ScalarValues \cup {Null}]
RecordsOver(S) == UNION {[1..n -> RowsOver(S)] : n \in 0..MaxRows}

\* Callback, the hash of a row: the xor, over the columns whose scalar is
\* valid, of the hash of the column name and the hash of the scalar.  Equal
\* terms cancel: the names are distinct and all stay, a scalar stays when
\* an odd number of columns carry it.
RowHash(S, row) ==
    [names |-> {c \in S : row[c] # Null},
     scalars |-> {v \in ScalarValues : Cardinality({c \in S : row[c] = v}) % 2 = 1}]

\* Callback, the insertion of a new row into a group-by column, lines
\* 193-213: the builder is created if missing, back-filled with nulls up to
\* the index of the new group, and given the value.
AppendToGroupByCol(cols, c, numAggregates) ==
    LET len == IF c \in DOMAIN cols THEN cols[c] ELSE 0
        filled == IF len < numAggregates - 1 THEN numAggregates - 1 ELSE len
    IN filled + 1

\* Callback, the body of the loop over the rows, lines 157-219.
CallbackRow(a, S, row) ==
    LET hash == RowHash(S, row)
        isNew == hash \notin DOMAIN a.hashToAggregate
        arrays == IF isNew THEN Append(a.arraysToAggregate, 0) ELSE a.arraysToAggregate
        k == IF isNew THEN Len(arrays) ELSE a.hashToAggregate[hash]
        map == IF isNew
               THEN [h \in DOMAIN a.hashToAggregate \cup {hash} |->
                        IF h = hash THEN k ELSE a.hashToAggregate[h]]
               ELSE a.hashToAggregate
        cols == IF isNew
                THEN [c \in DOMAIN a.groupByCols \cup S |->
                        IF c \in S
                        THEN AppendToGroupByCol(a.groupByCols, c, Len(arrays))
                        ELSE a.groupByCols[c]]
                ELSE a.groupByCols
    IN [a EXCEPT !.groupByCols = cols,
                 !.hashToAggregate = map,
                 !.arraysToAggregate = [arrays EXCEPT ![k] = @ + 1]]

\* Callback, the loop over the rows of the record.
RECURSIVE CallbackRows(_, _, _)
CallbackRows(a, S, rows) ==
    IF rows = <<>> THEN a
    ELSE CallbackRows(CallbackRow(a, S, Head(rows)), S, Tail(rows))

\* HashAggregate.Callback(r) for a record that has the column to aggregate.
Callback ==
    /\ hashAggregate.calls < MaxCallbackCalls
    /\ ~hashAggregate.out.passed
    /\ \E S \in SUBSET GroupByColumns : \E rows \in RecordsOver(S) :
          hashAggregate' = [CallbackRows(hashAggregate, S, rows) EXCEPT !.calls = @ + 1]
    /\ UNCHANGED <<tableVars, mtx, blocks, task, tx, committed, wal, bucket,
                   writer, scan, closer, inserts, faults, bound, now, rejected,
                   iter, insertCtx, synchronize>>

\* HashAggregate.Callback(r) for a record without the column to aggregate:
\* the error is returned before anything is touched.
CallbackNoAggregateField ==
    /\ hashAggregate.calls < MaxCallbackCalls
    /\ ~hashAggregate.out.passed
    /\ hashAggregate' = [hashAggregate EXCEPT !.calls = @ + 1, !.err = TRUE]
    /\ UNCHANGED <<tableVars, mtx, blocks, task, tx, committed, wal, bucket,
                   writer, scan, closer, inserts, faults, bound, now, rejected,
                   iter, insertCtx, synchronize>>

\* HashAggregate.Finish: every group-by builder becomes an array, the
\* aggregation makes one value of each aggregate builder, and the record of
\* these arrays is passed to nextCallback.
Finish ==
    /\ ~hashAggregate.out.passed
    /\ hashAggregate' =
          [hashAggregate EXCEPT !.out =
              [passed |-> TRUE,
               groupByArrays |-> hashAggregate.groupByCols,
               aggregateArray |-> Len(hashAggregate.arraysToAggregate)]]
    /\ UNCHANGED <<tableVars, mtx, blocks, task, tx, committed, wal, bucket,
                   writer, scan, closer, inserts, faults, bound, now, rejected,
                   iter, insertCtx, synchronize>>

\* ------------------------------------------------------------------ Synchronize
CallerAt(p, pc) == synchronize.caller[p].pc = pc

\* The callers that have called synchronize.Finish.
Finishing == {p \in Producers : synchronize.caller[p].pc \in {"sinkFinish", "done"}}

\* A faulty variant of the next definition: the caller does not register.
RegisterSkipped(p) ==
    /\ CallerAt(p, "start")
    /\ synchronize' = [synchronize EXCEPT !.caller[p].pc = "range"]
    /\ UNCHANGED <<tableVars, mtx, blocks, task, tx, committed, wal, bucket,
                   writer, scan, closer, inserts, faults, bound, now, rejected,
                   iter, insertCtx, hashAggregate>>

\* simulateCaller: synchronize.wg.Add(1), the first thing the goroutine does.
Register(p) ==
    /\ CallerAt(p, "start")
    /\ synchronize' = [synchronize EXCEPT !.wg = @ + 1,
                                          !.late = @ \/ Finishing # {},
                                          !.caller[p].pc = "range"]
    /\ UNCHANGED <<tableVars, mtx, blocks, task, tx, committed, wal, bucket,
                   writer, scan, closer, inserts, faults, bound, now, rejected,
                   iter, insertCtx, hashAggregate>>

\* for rec := range recChan, and the test's recChan <- nil: the channel has
\* no buffer, a record passes when a caller is there to take it.
Receive(p) ==
    /\ CallerAt(p, "range")
    /\ synchronize.sent < NumRecords
    /\ synchronize' = [synchronize EXCEPT !.sent = @ + 1,
                                          !.caller[p].pc = "callback"]
    /\ UNCHANGED <<tableVars, mtx, blocks, task, tx, committed, wal, bucket,
                   writer, scan, closer, inserts, faults, bound, now, rejected,
                   iter, insertCtx, hashAggregate>>

\* close(recChan), once the test has sent all its records.
CloseRecChan ==
    /\ synchronize.sent = NumRecords
    /\ ~synchronize.closed
    /\ synchronize' = [synchronize EXCEPT !.closed = TRUE]
    /\ UNCHANGED <<tableVars, mtx, blocks, task, tx, committed, wal, bucket,
                   writer, scan, closer, inserts, faults, bound, now, rejected,
                   iter, insertCtx, hashAggregate>>

\* The range loop ends on the closed channel.
RangeEnd(p) ==
    /\ CallerAt(p, "range")
    /\ synchronize.closed
    /\ synchronize' = [synchronize EXCEPT !.caller[p].pc = "finish"]
    /\ UNCHANGED <<tableVars, mtx, blocks, task, tx, committed, wal, bucket,
                   writer, scan, closer, inserts, faults, bound, now, rejected,
                   iter, insertCtx, hashAggregate>>

\* A faulty variant of the next definition: Callback forwards without the
\* mutex.
CallbackUnlocked(p) ==
    /\ CallerAt(p, "callback")
    /\ synchronize' = [synchronize EXCEPT !.caller[p].pc = "sinkRead"]
    /\ UNCHANGED <<tableVars, mtx, blocks, task, tx, committed, wal, bucket,
                   writer, scan, closer, inserts, faults, bound, now, rejected,
                   iter, insertCtx, hashAggregate>>

\* synchronize.Callback: take the mutex, then forward to the sink.
CallbackLock(p) ==
    /\ CallerAt(p, "callback")
    /\ synchronize.mtx = 0
    /\ synchronize' = [synchronize EXCEPT !.mtx = p, !.caller[p].pc = "sinkRead"]
    /\ UNCHANGED <<tableVars, mtx, blocks, task, tx, committed, wal, bucket,
                   writer, scan, closer, inserts, faults, bound, now, rejected,
                   iter, insertCtx, hashAggregate>>

\* The callback of the sink, numCbCalls++ on a plain int: the read.
SinkRead(p) ==
    /\ CallerAt(p, "sinkRead")
    /\ synchronize' = [synchronize EXCEPT !.caller[p].read = synchronize.numCbCalls,
                                          !.caller[p].pc = "sinkWrite"]
    /\ UNCHANGED <<tableVars, mtx, blocks, task, tx, committed, wal, bucket,
                   writer, scan, closer, inserts, faults, bound, now, rejected,
                   iter, insertCtx, hashAggregate>>

\* numCbCalls++: the write; the callback returns and Callback unlocks.
SinkWrite(p) ==
    /\ CallerAt(p, "sinkWrite")
    /\ synchronize' = [synchronize EXCEPT !.numCbCalls = synchronize.caller[p].read + 1,
                                          !.mtx = IF @ = p THEN 0 ELSE @,
                                          !.caller[p].pc = "range"]
    /\ UNCHANGED <<tableVars, mtx, blocks, task, tx, committed, wal, bucket,
                   writer, scan, closer, inserts, faults, bound, now, rejected,
                   iter, insertCtx, hashAggregate>>

\* synchronize.Finish: under the mutex the counter is decremented; if it is
\* zero the sink's Finish is next, else Finish returns nil.
FinishLock(p) ==
    /\ CallerAt(p, "finish")
    /\ synchronize.mtx = 0
    /\ synchronize' =
          IF synchronize.wg - 1 = 0
          THEN [synchronize EXCEPT !.wg = @ - 1, !.mtx = p,
                                   !.caller[p].pc = "sinkFinish"]
          ELSE [synchronize EXCEPT !.wg = @ - 1, !.caller[p].pc = "done"]
    /\ UNCHANGED <<tableVars, mtx, blocks, task, tx, committed, wal, bucket,
                   writer, scan, closer, inserts, faults, bound, now, rejected,
                   iter, insertCtx, hashAggregate>>

\* The finish of the sink, numFinCalls++ under finMtx; Finish returns its
\* result and unlocks.
SinkFinish(p) ==
    /\ CallerAt(p, "sinkFinish")
    /\ synchronize' = [synchronize EXCEPT !.numFinCalls = @ + 1, !.mtx = 0,
                                          !.caller[p].pc = "done"]
    /\ UNCHANGED <<tableVars, mtx, blocks, task, tx, committed, wal, bucket,
                   writer, scan, closer, inserts, faults, bound, now, rejected,
                   iter, insertCtx, hashAggregate>>

\* simulateCaller, step by step.
simulateCaller(p) ==
    \/ Register(p) \/ Receive(p) \/ RangeEnd(p)
    \/ CallbackLock(p) \/ SinkRead(p) \/ SinkWrite(p)
    \/ FinishLock(p) \/ SinkFinish(p)

\* ------------------------------------------------------------------ spec
\* Table.InsertRecord, step by step.
InsertRecord(w) ==
    \/ ActiveWriteBlock(w)
    \/ AppenderAdmit(w)
    \/ AppenderFull(w)
    \/ RotateBlock(w)
    \/ LogRecord(w)
    \/ InsertIntoBlock(w)
    \/ Return(w)

\* The goroutine RotateBlock starts, go t.writeBlock(block, true).
writeBlock(b) ==
    \/ WaitWriters(b)
    \/ Persist(b)
    \/ DropPendingBlock(b)
    \/ LogPersisted(b)
    \/ CompleteBlock(b)

collectRowGroups == MemoryBlocks \/ ScanSource \/ ReleaseReaders

close == CloseLock \/ CloseWait

\* Writers, rotations, persistence tasks and close().
Init == InitTable /\ bound = Bounds(MaxBlocks, MaxInserts, MaxFaults)

Next ==
    \/ \E w \in Writers : InsertRecord(w)
    \/ \E b \in AllBlockIds : writeBlock(b)
    \/ close

Spec == Init /\ [][Next]_vars

\* The same for a table that has its first block or has none.
InitAnyTable ==
    /\ InitTable \/ InitReadOnlyTable
    /\ bound = Bounds(MaxBlocks, MaxInserts, MaxFaults)

NextAnyTable == Next \/ \E w \in Writers : ActiveWriteBlockNil(w)

SpecAnyTable == InitAnyTable /\ [][NextAnyTable]_vars

\* Writers whose callers may cancel the context between calls.
NextCancel == Next \/ \E w \in Writers : CancelInsertContext(w)

SpecCancel == Init /\ [][NextCancel]_vars

\* One writer, rotations and persistence tasks, and a goroutine that scans
\* the table again and again while the clock runs.
NextScan ==
    \/ InsertRecord(1)
    \/ \E b \in AllBlockIds : writeBlock(b) \/ DropPendingBlockWait(b)
    \/ collectRowGroups
    \/ Tick

SpecScan == Init /\ [][NextScan]_vars

\* The same with a block more, one insert, and no call that fails.
InitScanOrder == InitTable /\ bound = Bounds(MaxBlocks + 1, 1, 0)

SpecScanOrder == InitScanOrder /\ [][NextScan]_vars

\* Rotations only, and the persistence tasks of the rotated blocks in every
\* order: a writer that finds every block full.
InitWatermark == InitTable /\ bound = Bounds(MaxRotatedBlocks, 0, MaxFaults)

NextWatermark ==
    \/ ActiveWriteBlock(1) \/ AppenderFull(1) \/ RotateBlock(1)
    \/ \E b \in AllBlockIds : writeBlock(b)

SpecWatermark == InitWatermark /\ [][NextWatermark]_vars

\* One Iterator call.  The scheduler runs every goroutine that can take a
\* step, and a select with several ready cases picks each of them sooner or
\* later.
NextIterator ==
    \/ IteratorStart \/ CancelContext
    \/ \E c \in Callbacks : Worker(c)
    \/ Producer
    \/ IteratorWait

FairIterator ==
    /\ \A c \in Callbacks :
        /\ SF_vars(WorkerCancelled(c))
        /\ WF_vars(WorkerReceive(c) \/ WorkerClosed(c) \/ WorkerCallback(c))
    /\ WF_vars(Producer)
    /\ WF_vars(IteratorWait)

SpecIterator == Init /\ [][NextIterator]_vars /\ FairIterator

\* TestNoRaceAndSingleFinish: the two callers and the test closing recChan,
\* in every order the scheduler allows.
NextSynchronize == (\E p \in Producers : simulateCaller(p)) \/ CloseRecChan

SpecSynchronize == Init /\ [][NextSynchronize]_vars

\* A HashAggregate given some records and then finished.
NextHashAggregate == Callback \/ CallbackNoAggregateField \/ Finish

SpecHashAggregate == Init /\ [][NextHashAggregate]_vars

\* ------------------------------------------------------------------ properties
\* The batches a scan has sent to its channel, and those of the files.
Emitted == BagToSet(scan.emitted)
Persisted == UNION {f.data : f \in bucket}

\* C1: when WAL.LogRecord fails inside InsertRecord, the call is on its way
\* out with the error without having gone through block.InsertRecord: its
\* batch is in no index, in no persisted file, and in the output of no scan.
C1_WALFailureLeavesNoTrace ==
    /\ \A w \in Writers :
          writer[w].result = "WALError" =>
            /\ writer[w].pc = "return"
            /\ Batch(writer[w].tx, writer[w].rows) \in rejected
    /\ rejected \cap (Inserted \cup Persisted \cup Emitted) = {}
    /\ \A e \in rejected : \A x \in Inserted \cup Persisted \cup Emitted : x.tx # e.tx

\* A record with rows was refused by the WAL, and a scan that started after
\* it has finished and has emitted a batch inserted later.
C1_Witness ==
    \E e \in rejected :
        /\ e.rows > 0
        /\ scan.pc = "idle"
        /\ \E x \in Emitted : x.tx > e.tx

\* The writers that hold a writer slot of block b: they have been through
\* ActiveWriteBlock and have not yet called the release it returned.
SlotHolders(b) ==
    {w \in Writers : writer[w].block = b
                      /\ writer[w].pc \in {"acquired", "log", "insert", "return"}}

IsIndexed(t) == \E e \in Inserted : e.tx = t

\* C2: in every InsertRecord call, whatever the other writers do, the WAL
\* append of the record comes before the insertion into the index and both
\* come before the commit of the tx: a call that has not logged has not
\* inserted, a call that has not returned has not committed, and every batch
\* of an index has its record in the WAL.
C2_WALThenIndexThenCommit ==
    /\ \A e \in Inserted : RecordEntry(e.tx) \in wal
    /\ \A w \in Writers :
        /\ writer[w].pc \in {"log", "insert", "return"} =>
                writer[w].tx \notin committed
        /\ writer[w].pc = "log" =>
                RecordEntry(writer[w].tx) \notin wal /\ ~IsIndexed(writer[w].tx)
        /\ writer[w].pc = "insert" =>
                RecordEntry(writer[w].tx) \in wal /\ ~IsIndexed(writer[w].tx)
        /\ writer[w].pc = "return" /\ writer[w].result = "ok" =>
                /\ RecordEntry(writer[w].tx) \in wal
                /\ writer[w].rows > 0 =>
                       Batch(writer[w].tx, writer[w].rows) \in blocks[writer[w].block].index
    /\ \A e \in Inserted :
          e.tx \in committed \/ \E w \in Writers : writer[w].tx = e.tx /\ writer[w].pc = "return"

\* Two calls in flight at once: one has logged and inserted its rows and is
\* about to commit, the other has logged and not yet inserted.
C2_Witness ==
    \E w1, w2 \in Writers :
        /\ writer[w1].pc = "return" /\ writer[w1].result = "ok" /\ writer[w1].rows > 0
        /\ writer[w2].pc = "insert" /\ writer[w2].rows > 0

\* C3: once RotateBlock has replaced block B as the active block, no writer
\* slot is taken on B again: every step that takes a writer slot takes it on
\* the block that is active, which is neither pending nor handed to a
\* persistence task, however many writers there are.
C3_NoSlotOnRotatedBlock ==
    [][\A b \in BlockIds :
          blocks'[b].pendingWritersWg > blocks[b].pendingWritersWg =>
            /\ b = active
            /\ b \notin pendingBlocks
            /\ task[b].pc = "none"]_vars

\* A writer still holds its slot on the rotated block while another holds
\* one on the block that replaced it.
C3_Witness ==
    \E w1, w2 \in Writers :
        /\ writer[w1].block \in pendingBlocks /\ w1 \in SlotHolders(writer[w1].block)
        /\ writer[w2].block = active /\ w2 \in SlotHolders(active)

\* The task of a block is past pendingWritersWg.Wait().
PersistBegun(b) == task[b].pc \notin {"none", "wait"}

\* pendingWritersWg counts the writers that hold a slot, and no writer holds
\* one on a block whose task is past the wait.
C4_NoWriterAtPersist ==
    \A b \in BlockIds :
        /\ blocks[b].pendingWritersWg = Cardinality(SlotHolders(b))
        /\ PersistBegun(b) => SlotHolders(b) = {}

\* The index of a block whose task is past the wait does not change.
C4_IndexFrozen ==
    \A b \in BlockIds : PersistBegun(b) => blocks'[b].index = blocks[b].index

\* C4: Persist(B) of a rotated block B begins only when no writer holds a
\* writer slot on B: every writer that took one while B was active has done
\* its WAL append and its index insertion and has released the slot; and
\* once Persist(B) has begun no batch is inserted into B.
C4_PersistAfterWriters ==
    []C4_NoWriterAtPersist /\ [][C4_IndexFrozen]_vars

\* The task of a block that holds rows is about to call Persist while a
\* writer is in the middle of a call on the block that replaced it.
C4_Witness ==
    \E b \in BlockIds :
        /\ task[b].pc = "persist"
        /\ blocks[b].index # {}
        /\ \E w \in Writers : w \in SlotHolders(active) /\ writer[w].pc \in {"log", "insert"}

NewTableBlockEntries(b) == {e \in wal : e.type = "NewTableBlock" /\ e.block = b}

\* Every block was created by one NewTableBlock entry, and every block but
\* the active one was rotated once: one task, one successor.
C5_OneRotationPerBlock ==
    \A b \in BlockIds :
        /\ Cardinality(NewTableBlockEntries(b)) = 1
        /\ task[b].spawned = IF b = active THEN 0 ELSE 1
        /\ b \in pendingBlocks => b # active
        /\ Cardinality({c \in BlockIds : c > 1 /\ blocks[c].prevTx = blocks[b].minTx})
             = IF b = active THEN 0 ELSE 1

\* What a RotateBlock call does: called for a block that is no longer active
\* it returns nil and changes nothing; if it does not replace the active
\* block it leaves the table as it was; if it does, the block it was called
\* for becomes pending and gets its task.
C5_RotateBlockStep ==
    \A w \in Writers :
        (writer[w].pc = "rotate" /\ writer'[w] # writer[w]) =>
            /\ writer[w].block # active =>
                /\ writer'[w] = [writer[w] EXCEPT !.pc = "appender"]
                /\ UNCHANGED <<tableVars, blocks, task, wal, tx, committed, bucket>>
            /\ active' = active =>
                UNCHANGED <<tableVars, blocks, task, wal, bucket>>
            /\ active' # active =>
                /\ pendingBlocks' = pendingBlocks \cup {writer[w].block}
                /\ writer[w].block \notin pendingBlocks
                /\ task[writer[w].block].pc = "none"
                /\ task'[writer[w].block].pc = "wait"
                /\ wal' = wal \cup NewTableBlockEntries(active)'
                /\ writer'[w].pc = "appender"

Completed == {b \in BlockIds : task[b].pc = "completed"}

\* lastCompleted is its initial value or the minTx of a block X such that X
\* and every block rotated before it are completed; completedBlocks holds,
\* in prevTx order, the completed blocks the watermark has not reached.
C6_WatermarkIsPrefix ==
    /\ \/ lastCompleted = 0
       \/ \E X \in BlockIds : /\ blocks[X].minTx = lastCompleted
                                /\ 1..X \subseteq Completed
    /\ \A i \in 1..Len(completedBlocks) :
        /\ completedBlocks[i].prevTx > lastCompleted
        /\ \E b \in Completed : /\ blocks[b].prevTx = completedBlocks[i].prevTx
                                 /\ blocks[b].minTx = completedBlocks[i].tx
        /\ i > 1 => completedBlocks[i - 1].prevTx < completedBlocks[i].prevTx

\* lastCompleted never decreases, and it changes from v to v' only along
\* completed blocks x..y, each the successor of the one before, where x has
\* prevTx = v and y has minTx = v'.
C6_WatermarkStep ==
    /\ lastCompleted' >= lastCompleted
    /\ lastCompleted' # lastCompleted =>
         \E x, y \in BlockIds :
            /\ x <= y
            /\ blocks[x].prevTx = lastCompleted
            /\ blocks[y].minTx = lastCompleted'
            /\ \A z \in x..y : /\ task'[z].pc = "completed"
                                /\ z > x => blocks[z].prevTx = blocks[z - 1].minTx

\* C6: in every reachable state lastCompleted is its initial value or the
\* minTx of a block X such that X and every block rotated before X have
\* finished persisting; lastCompleted changes from v to v' only through
\* completed blocks with prevTx = v and tx = v', so it never decreases and
\* never skips a block that is not persisted, whatever the order in which the
\* persistence tasks finish.
C6_PrefixContiguousWatermark ==
    []C6_WatermarkIsPrefix /\ [][C6_WatermarkStep]_vars

\* The watermark has advanced while a block completed out of order waits in
\* completedBlocks for the block before it.
C6_Witness ==
    /\ lastCompleted # 0
    /\ completedBlocks # <<>>

\* Blocks a, a + 1, a + 2 have been rotated, every block before a is
\* completed and no block after a + 2 is.
RotatedABC(a) ==
    /\ a + 2 < Len(blocks)
    /\ 1..(a - 1) \subseteq Completed
    /\ Completed \subseteq 1..(a + 2)

CompletedOf(a) == Completed \ 1..(a - 1)

\* C7 with A.minTx as the first of the three values: with blocks A, B, C
\* rotated in that order and their persistence completing in the order
\* C, A, B, lastCompleted is A.minTx after the first completion, A.minTx after
\* the second and C.minTx after the third.  The first value would have the
\* watermark pass A before A is persisted.
C7_Scenario4Values ==
    \A a \in BlockIds :
        RotatedABC(a) =>
            /\ CompletedOf(a) = {a + 2} => lastCompleted = blocks[a].minTx
            /\ CompletedOf(a) = {a, a + 2} => lastCompleted = blocks[a].minTx
            /\ CompletedOf(a) = {a, a + 1, a + 2} => lastCompleted = blocks[a + 2].minTx

\* C7: with blocks A, B, C rotated in that order and their persistence
\* completing in the order C, A, B, lastCompleted is what it was before
\* (A.prevTx, the initial value if A is the first block) after the first
\* completion, A.minTx after the second and C.minTx after the third.
C7_WatermarkCAB ==
    \A a \in BlockIds :
        RotatedABC(a) =>
            /\ CompletedOf(a) = {a + 2} => lastCompleted = blocks[a].prevTx
            /\ CompletedOf(a) = {a, a + 2} => lastCompleted = blocks[a].minTx
            /\ CompletedOf(a) = {a, a + 1, a + 2} => lastCompleted = blocks[a + 2].minTx

\* C and A are completed, B is not: C waits in completedBlocks.
C7_Witness ==
    \E a \in BlockIds :
        /\ RotatedABC(a)
        /\ CompletedOf(a) = {a, a + 2}
        /\ Len(completedBlocks) = 1
        /\ completedBlocks[1].tx = blocks[a + 2].minTx
        /\ task[a + 1].pc \in {"wait", "persist", "drop", "log", "complete"}

TableBlockPersistedEntries(b) ==
    {e \in wal : e.type = "TableBlockPersisted" /\ e.block = b}

\* C8: the TableBlockPersisted entry of a block is logged before the block
\* is removed from pendingBlocks: in no reachable state is a rotated block
\* that Persist has written absent from pendingBlocks while the WAL has no
\* TableBlockPersisted entry for it.
C8_PersistedLoggedBeforeDrop ==
    \A b \in BlockIds :
        (b # active /\ b \notin pendingBlocks /\ (\E f \in bucket : f.block = b)) =>
            TableBlockPersistedEntries(b) # {}

\* C9: the NewTableBlock entry of a block is in the WAL before the block is
\* the active block, hence before a writer can take a slot on it or insert
\* into it: every block that exists, the active one and those the writers
\* hold, has its entry under its minTx.
C9_CreatedLoggedBeforeActive ==
    /\ active # 0 => NewTableBlockEntry(blocks[active].minTx, active) \in wal
    /\ \A b \in BlockIds : NewTableBlockEntry(blocks[b].minTx, b) \in wal
    /\ \A w \in Writers :
          writer[w].block # 0 =>
            /\ writer[w].block \in BlockIds
            /\ NewTableBlockEntries(writer[w].block) # {}

\* A rotation has failed in the WAL, a later one has gone through, and a
\* writer has inserted into the block it made active.
C9_Witness ==
    /\ active > 1
    /\ blocks[active].index # {}
    /\ faults > 0
    /\ Cardinality({e \in wal : e.type = "NewTableBlock"}) = Len(blocks)

\* How many times a scan has emitted batch e.
Copies(e) == IF e \in BagToSet(scan.emitted) THEN CopiesIn(e, scan.emitted) ELSE 0

DistinctULIDs ==
    \A b, c \in BlockIds : b # c => blocks[b].ulid # blocks[c].ulid

\* C10: every scan, under any interleaving with rotations and persistence
\* tasks, including tasks that finish out of rotation order, emits each
\* inserted batch exactly once: a scan that has read all its sources has
\* emitted one copy of every batch that was in an index when it took its
\* snapshot of the memory blocks.  Stated for runs in which no call fails
\* and no two blocks share a ULID time.
C10_ScanEmitsEachBatchOnce ==
    (scan.pc = "scan" /\ scan.sources = <<>> /\ ~scan.err /\ DistinctULIDs) =>
        \A e \in scan.inserted : Copies(e) = 1

\* C11: when a callback returns an error, or the context is cancelled,
\* Table.Iterator eventually returns, with the error: the goroutine of
\* collectRowGroups and every worker terminate, however many row groups are
\* still to be sent, more than the channel holds included.
C11_IteratorReturnsOnError ==
    /\ iter.err ~> iter.result = "error"
    /\ (iter.pc = "running" /\ iter.ctx = "cancelled") ~> iter.pc = "returned"

\* The blocks the scan in progress holds a reader reference on.
ReadersOf(b) == IF scan.pc = "scan" /\ b \in scan.memoryBlocks THEN 1 ELSE 0

\* C12: every pendingReadersWg increment made when a scan takes its snapshot
\* of the active and pending blocks is matched by one decrement when
\* collectRowGroups returns, with nil or with the error of a source: the
\* reader count of a block is the number of scans in progress that hold it,
\* never negative, and zero once the scans have returned.
C12_ReadersReleased ==
    \A b \in BlockIds :
        /\ blocks[b].pendingReadersWg = ReadersOf(b)
        /\ blocks[b].pendingReadersWg >= 0
        /\ scan.pc = "idle" => blocks[b].pendingReadersWg = 0

\* A scan that held the active and a pending block has returned the error
\* of a source.
C12_Witness ==
    /\ scan.pc = "idle"
    /\ scan.err
    /\ Cardinality(scan.memoryBlocks) >= 2
    /\ \A b \in scan.memoryBlocks : blocks[b].pendingReadersWg = 0

\* dropPendingBlock has returned for block b.
Dropped(b) == task[b].pc \in {"failed", "log", "complete", "completed"}

\* No scan holds a reference on a block dropPendingBlock has returned for,
\* and a block it has deleted is neither pending nor active.
C13_NoReaderOnDropped ==
    \A b \in BlockIds :
        /\ Dropped(b) => blocks[b].pendingReadersWg = 0 /\ ReadersOf(b) = 0
        /\ (Dropped(b) \/ task[b].pc = "dropWait") =>
              b \notin pendingBlocks /\ b # active

\* A reader reference is only ever taken on the active block or on a block
\* of pendingBlocks.
C13_ReferenceStep ==
    \A b \in BlockIds :
        blocks'[b].pendingReadersWg > blocks[b].pendingReadersWg =>
            b = active \/ b \in pendingBlocks

\* C13: the persistence task gets past dropPendingBlock, where the resources
\* of a pending block are released, only when no scan holds a reader
\* reference on the block, and once the block is removed from pendingBlocks
\* no scan takes a new reference on it.
C13_DropWaitsForReaders ==
    []C13_NoReaderOnDropped /\ [][C13_ReferenceStep]_vars

\* dropPendingBlock has deleted a block and waits for the scan that holds it.
C13_Witness ==
    \E b \in BlockIds :
        /\ task[b].pc = "dropWait"
        /\ scan.pc = "scan" /\ b \in scan.memoryBlocks
        /\ blocks[b].index # {}

\* The callers that have registered, and whether all are through.
Registered == {p \in Producers : ~CallerAt(p, "start")}
AllDone == \A p \in Producers : CallerAt(p, "done")

\* C14: when all the producers register with the barrier before any of them
\* calls Finish, each calling Callback zero or more times and then Finish
\* once, the Finish of the sink is invoked exactly once, and only after
\* every registered producer has called Finish.
C14_SingleFinishAfterAll ==
    ~synchronize.late =>
        /\ synchronize.numFinCalls <= 1
        /\ synchronize.numFinCalls = 1 => Registered \subseteq Finishing
        /\ (\E p \in Producers : CallerAt(p, "sinkFinish")) =>
              Registered \subseteq Finishing /\ synchronize.numFinCalls = 0
        /\ AllDone => synchronize.numFinCalls = 1

\* Both callers registered before either finished, both took records, and
\* both are through.
C14_Witness ==
    /\ AllDone
    /\ ~synchronize.late
    /\ synchronize.numFinCalls = 1
    /\ synchronize.sent = NumRecords

\* The callers executing inside a function of the sink.
InSink == {p \in Producers : synchronize.caller[p].pc \in {"sinkRead", "sinkWrite", "sinkFinish"}}

\* The callers that have taken a record whose callback has not returned.
InCallback == {p \in Producers : synchronize.caller[p].pc \in {"callback", "sinkRead", "sinkWrite"}}

\* C15: the calls the barrier makes to its sink are serialized: no
\* execution of the sink's Callback overlaps another Callback or the sink's
\* Finish, so the sink's unsynchronized counter counts every Callback that
\* has returned, and ends at the number of Callbacks the producers issued.
C15_SinkCallsSerialized ==
    /\ Cardinality(InSink) <= 1
    /\ synchronize.numCbCalls + Cardinality(InCallback) = synchronize.sent
    /\ AllDone => synchronize.numCbCalls = NumRecords

\* One caller is inside the sink's callback while the other has a record and
\* waits to forward it.
C15_Witness ==
    \E p, q \in Producers :
        /\ p # q
        /\ CallerAt(p, "sinkWrite")
        /\ CallerAt(q, "callback")
        /\ synchronize.numCbCalls >= 1

\* C16: the Finish of the sink is invoked at most once in the life of a
\* barrier, in every interleaving of registrations, Callbacks and Finishes,
\* also when the producers register inside their own task at any time
\* relative to the other producers' Finish.
C16_FinishAtMostOnce == synchronize.numFinCalls <= 1

\* C17: every batch in the index of a block carries a write tx greater than
\* or equal to the minTx of that block, however writers and rotations
\* interleave.
C17_BatchTxAtLeastMinTx ==
    \A b \in BlockIds : \A e \in blocks[b].index : e.tx >= blocks[b].minTx

\* A writer that held the first block through a rotation inserted into it
\* with a tx above the minTx of the block that replaced it.
C17_Witness ==
    /\ Len(blocks) >= 2
    /\ \E e \in blocks[1].index : e.tx > blocks[2].minTx

\* No block that dropPendingBlock has removed is active or pending.
C18_DroppedIsOut ==
    \A b \in BlockIds : Dropped(b) => b # active /\ b \notin pendingBlocks

\* A step never makes active a block that exists and is not active, and a
\* block enters pendingBlocks only in the step that replaces it as active.
C18_ForwardStep ==
    \A b \in BlockIds :
        /\ active # b => active' # b
        /\ (b \notin pendingBlocks /\ b \in pendingBlocks') =>
              active = b /\ active' # b

\* C18: the life of a block only moves forward, active, pending, completed:
\* once RotateBlock has replaced a block it is never the active block again,
\* and once a block has been removed from pendingBlocks it never re-enters
\* pendingBlocks.
C18_LifecycleForward == []C18_DroppedIsOut /\ [][C18_ForwardStep]_vars

\* A block has been rotated out, written and completed, and a later block
\* is active.
C18_Witness ==
    \E b \in BlockIds :
        /\ task[b].pc = "completed"
        /\ b \notin pendingBlocks
        /\ active > b

\* There is an active block, one of the table's blocks, and it is not
\* pending.
C19_OneActiveNotPending ==
    /\ active \in BlockIds
    /\ active \notin pendingBlocks

\* A step that changes the active block puts the old one in pendingBlocks,
\* and a step that adds a block to pendingBlocks changes the active block.
C19_SwapStep ==
    /\ active' # active => active \in pendingBlocks' /\ active' \notin pendingBlocks'
    /\ ~(pendingBlocks' \subseteq pendingBlocks) => active' # active

\* C19: in every reachable state of a table that has a schema there is
\* exactly one active block and it is not a member of pendingBlocks;
\* rotation swaps the active block and adds the old one to pendingBlocks in
\* one step under the write lock.
C19_ExactlyOneActive == []C19_OneActiveNotPending /\ [][C19_SwapStep]_vars

\* A rotation has happened: the second block is active, the first pending,
\* and a writer still holds its slot on the first.
C19_Witness ==
    /\ active = 2
    /\ 1 \in pendingBlocks
    /\ \E w \in Writers : writer[w].block = 1 /\ writer[w].pc \in {"log", "insert"}

\* The number of rows of a set of batches.
RECURSIVE RowsOf(_)
RowsOf(S) ==
    IF S = {} THEN 0
    ELSE LET e == CHOOSE x \in S : TRUE IN e.rows + RowsOf(S \ {e})

\* The rows of the persisted files.
RECURSIVE RowsOfFiles(_)
RowsOfFiles(F) ==
    IF F = {} THEN 0
    ELSE LET f == CHOOSE x \in F : TRUE IN RowsOf(f.data) + RowsOfFiles(F \ {f})

\* The batches held by the blocks in memory, the active and the pending.
InMemory == UNION {blocks[b].index : b \in {active} \cup pendingBlocks}

\* No InsertRecord call and no writeBlock task is under way.
Quiescent ==
    /\ \A w \in Writers : writer[w].pc = "idle"
    /\ \A b \in BlockIds : task[b].pc \in {"none", "failed", "completed"}

\* C20: after any sequence of InsertRecord calls with at most one rotation,
\* the rows successfully inserted are as many as the rows held by the
\* blocks in memory plus the rows of the persisted files: no row is lost or
\* duplicated as a block goes from active to pending to persisted.
C20_RowsConserved ==
    (Quiescent /\ Len(blocks) <= 2) =>
        RowsOf(Inserted) = RowsOf(InMemory) + RowsOfFiles(bucket)

\* Once closing is set it stays set, and a call of ActiveWriteBlock, the
\* first thing InsertRecord does and what its appender loop does again after
\* a rotation, ends the InsertRecord with ErrTableClosing: no slot is taken,
\* no tx begun, nothing written to the WAL or to an index.
C21_ClosingStep ==
    closing =>
        /\ closing'
        /\ \A w \in Writers :
              (writer[w].pc \in {"idle", "appender"} /\ writer'[w] # writer[w]) =>
                  /\ writer'[w] = [IdleWriter EXCEPT !.result = "ErrTableClosing"]
                  /\ UNCHANGED <<blocks, wal, tx, committed>>

\* C21: once close() has set the closing flag, every InsertRecord returns
\* ErrTableClosing without acquiring a writer slot, writing to the WAL or
\* modifying an index, and the flag is never reset.
C21_ClosingRefusesInserts == [][C21_ClosingStep]_vars

\* The table is closing and a call has been refused.
C21_Witness ==
    /\ closing
    /\ \E w \in Writers : writer[w].result = "ErrTableClosing"

\* C22: InsertRecord on a read-only table, one with no schema and hence no
\* active block, returns ErrNoSchema and leaves the WAL and the state of the
\* table as they were.
C22_NoSchemaError ==
    active = 0 =>
        /\ \A w \in Writers :
              writer[w] \in {IdleWriter, [IdleWriter EXCEPT !.result = "ErrNoSchema"]}
        /\ wal = {} /\ blocks = <<>> /\ tx = 0 /\ pendingBlocks = {}

\* C23: InsertRecord of a record without rows appends no data record to the
\* WAL (WAL.LogRecord is not called for it), while the insert is accepted.
C23_ZeroRowsNotLogged ==
    \A w \in Writers :
        (/\ writer[w].rows = 0
         /\ writer[w].pc \in {"insert", "return"}
         /\ writer[w].result # "WALError") =>
            RecordEntry(writer[w].tx) \notin wal

\* C24: InsertRecord honours its context before it acquires a writer slot:
\* a call made with a context that is already cancelled returns an error
\* without acquiring a slot, beginning a tx, logging to the WAL or inserting
\* into the index.
C24_CancelledInsertRefused ==
    \A w \in Writers :
        insertCtx[w] = "cancelled" =>
            /\ writer[w].pc = "idle"
            /\ writer[w].block = 0 /\ writer[w].tx = 0
            /\ writer[w].result \in {"none", "Canceled", "ErrTableClosing"}

\* The blocks whose Persist returned an error.
PersistFailed == {b \in BlockIds : task[b].err}

\* C25: if Persist of a block B returns an error, the task logs no
\* TableBlockPersisted entry for B and does not append B to completedBlocks,
\* and in no later state has lastCompleted reached the minTx of B or of a
\* block rotated after B.
C25_FailedPersistStopsWatermark ==
    \A b \in PersistFailed :
        /\ TableBlockPersistedEntries(b) = {}
        /\ \A i \in 1..Len(completedBlocks) : completedBlocks[i].tx # blocks[b].minTx
        /\ task[b].pc \in {"drop", "dropWait", "failed"}
        /\ lastCompleted < blocks[b].minTx

\* Persist of a block failed and its task has ended; a block rotated after
\* it has completed and waits in completedBlocks.
C25_Witness ==
    \E b \in PersistFailed :
        /\ task[b].pc = "failed"
        /\ \E c \in BlockIds :
              /\ c > b
              /\ task[c].pc = "completed"
              /\ \E i \in 1..Len(completedBlocks) : completedBlocks[i].tx = blocks[c].minTx

\* A step in which a RotateBlock call ends with the error of the WAL leaves
\* the table as it was and starts no task.
C26_FailedRotateStep ==
    \A w \in Writers :
        (writer[w].pc = "rotate" /\ writer'[w].result = "RotateError") =>
            /\ writer'[w].pc = "idle"
            /\ UNCHANGED <<active, pendingBlocks, completedBlocks, lastCompleted,
                           blocks, task, wal>>

\* C26: if logging the new block to the WAL fails during RotateBlock,
\* RotateBlock returns that error and the table is unchanged: the active
\* block is still the old one, pendingBlocks, completedBlocks and
\* lastCompleted are untouched, and no persistence task is started.
C26_FailedRotateNoEffect == [][C26_FailedRotateStep]_vars

\* A rotation has failed: the first block is still active and has no task.
C26_Witness ==
    /\ \E w \in Writers : writer[w].result = "RotateError"
    /\ active = 1
    /\ task[1].pc = "none"
    /\ faults = 1

\* The persistence tasks that wait, inside dropPendingBlock, for the readers
\* of the block they have dropped.
WaitingForReaders == {b \in BlockIds : task[b].pc = "dropWait"}

\* C27: a writer is never made to wait for a scan: while the persistence
\* task waits for the readers of a dropped block to finish, an InsertRecord
\* on the table can still acquire a writer slot, which it does under the
\* read lock of the table.
C27_WriterNeverWaitsForScan == WaitingForReaders # {} => CanRLock

\* The txs of the calls that have begun one and have not returned: those of
\* InsertRecord and of writeBlock (RotateBlock begins and commits in one
\* critical section).
InFlightTx ==
    {writer[w].tx : w \in {v \in Writers : writer[v].pc \in {"log", "insert", "return"}}}
    \cup {task[b].tx : b \in {c \in BlockIds : task[c].pc = "complete"}}

\* The txs begun and not committed are those of the calls in flight: none is
\* committed before its call returns, none is left when it has.
C28_UncommittedAreInFlight == (1..tx) \ committed = InFlightTx

\* A commit is never undone.
C28_CommitStep == committed \subseteq committed'

\* C28: every write tx obtained from the tx clock, in InsertRecord,
\* RotateBlock and the persistence task, is committed exactly once on every
\* return path, the paths where the WAL append fails included: no begun tx
\* is left uncommitted.
C28_EveryTxCommitted == []C28_UncommittedAreInFlight /\ [][C28_CommitStep]_vars

\* An InsertRecord whose WAL append failed has returned, and its tx is
\* committed.
C28_Witness ==
    /\ \E e \in rejected : e.tx \in committed
    /\ \A w \in Writers : writer[w].pc = "idle"
    /\ tx >= 3

\* C29: when Table.close() has returned, no InsertRecord holds a writer slot
\* on any block of the table, neither on the active block nor on a rotated
\* block that awaits persistence, so that no insertion into an index of the
\* table follows the return of close().
C29_NoWriterAfterClose ==
    closer = "closed" =>
        \A b \in BlockIds : SlotHolders(b) = {} /\ blocks[b].pendingWritersWg = 0

\* C30: the tx ranges of consecutive blocks do not overlap: every batch
\* inserted into a block carries a write tx smaller than the minTx of the
\* block that replaced it at rotation, however the writers in flight
\* interleave with RotateBlock.
C30_TxRangesDisjoint ==
    \A b \in BlockIds :
        b < Len(blocks) =>
            \A e \in blocks[b].index : e.tx < blocks[b + 1].minTx

\* C31: after any sequence of HashAggregate.Callback calls, records whose
\* sets of group-by columns differ from one to the next included, Finish
\* passes to nextCallback one record in which every group-by array is as
\* long as the aggregate array, which is as long as the number of groups
\* created.
C31_FinishRecordRectangular ==
    hashAggregate.out.passed =>
        /\ hashAggregate.out.aggregateArray = Cardinality(DOMAIN hashAggregate.hashToAggregate)
        /\ \A c \in DOMAIN hashAggregate.out.groupByArrays :
              hashAggregate.out.groupByArrays[c] = hashAggregate.out.aggregateArray

====
